---- MODULE Spec2Model ----
(***************************************************************************)
(* Telegram channel collector: the persistence gateway (database.py) and   *)
(* the collection cycle (collector.py).                                    *)
(*                                                                         *)
(* Two specifications share the store:                                     *)
(*   SpecSave  concurrent callers of Database.save_message on one store    *)
(*   Spec      the scheduled collector process (start_collection)          *)
(***************************************************************************)
EXTENDS Integers, Sequences, FiniteSets, TLC

\* ------------------------------------------------------------------ bounds
MaxWriters == 2      \* concurrent callers of save_message (SpecSave)
MaxCalls == 2        \* save_message calls made by each of them, in sequence
MaxMessageId == 1    \* message ids are 1..MaxMessageId
MaxPayload == 1      \* payloads (published_at, text, views) are 0..MaxPayload
MaxFaults == 1       \* failures of the database the environment injects
MaxSchemaRuns == 2   \* init_db calls in SpecSave
MaxChannels == 2     \* entries of TELEGRAM_CHANNELS
MaxPosts == 2        \* posts a remote channel holds, ids 1..MaxPosts
MaxCycles == 2       \* collection cycles the scheduler starts
MaxWait == 2         \* FloodWaitError.seconds is 1..MaxWait
MaxDue == 2          \* run times that fall due before the scheduler wakes up

\* ------------------------------------------------------ program constants
\* SimpleConnectionPool(minconn=5, maxconn=20)
maxconn == 20

Writers == 1..MaxWriters
Tasks == 1..MaxChannels
Callers == Writers \cup Tasks
MessageIds == 1..MaxMessageId
Payloads == 0..MaxPayload

\* str(entity.id) of the resolved channels: the decimal text of the numeric id
EntityIds == {101, 102}
Digit(d) == <<"0", "1", "2", "3", "4", "5", "6", "7", "8", "9">>[d + 1]
\* str(n) for 0 <= n < 1000, as Python formats it (no leading zeros)
str(n) ==
    IF n < 10 THEN Digit(n)
    ELSE IF n < 100 THEN Digit(n \div 10) \o Digit(n % 10)
    ELSE Digit(n \div 100) \o Digit((n \div 10) % 10) \o Digit(n % 10)
ChannelIds == {str(e) : e \in EntityIds}

None == 0            \* cur.fetchone() of an empty result; ids start at 1

VARIABLES
    rows,            \* telegram_posts: records, txn = 0 once committed
    nextId,          \* the SERIAL sequence of telegram_posts.id
    indexed,         \* telegram_posts_channel_message_idx exists
    schemaRuns,      \* completed init_db calls
    checked_out,     \* connections taken from the pool and not returned
    sv,              \* the save_message frame of each caller
    faults,          \* database failures injected so far
    hist,            \* per writer, the completed calls (SpecSave)
    TELEGRAM_CHANNELS,   \* settings.TELEGRAM_CHANNELS, a list of references
    proc,            \* start_collection: "init", then "scheduling"
    due,             \* run times of the job that are due and not yet processed
    instances,       \* instances of the job the executor is running
    cycle,           \* the collect_all_channels call in progress
    collection_stats,    \* self.collection_stats: channel -> CollectionStats
    task,            \* per launched collector, its coroutine's state
    running          \* the task that holds the event loop's thread, 0 if none

dbVars == <<rows, nextId, indexed, schemaRuns, checked_out, sv, faults>>
collVars == <<TELEGRAM_CHANNELS, proc, due, instances, cycle,
              collection_stats, task, running>>
others == <<hist, collVars>>
vars == <<dbVars, hist, collVars>>

IdleFrame ==
    [pc |-> "idle", channel_id |-> "", message_id |-> 0, payload |-> 0,
     result |-> None, ret |-> "none", added |-> 0, faulted |-> FALSE,
     closed |-> FALSE]

\* ---------------------------------------------------------------- database.py
Frame(c) == sv[c]
SetFrame(c, f) == [sv EXCEPT ![c] = f]

\* The rows the unique index telegram_posts_channel_message_idx holds under
\* one (channel_id, message_id): what an INSERT of that key conflicts with.
SameKeyNoIndex(channel_id, message_id) == {}
SameKey(channel_id, message_id) ==
    {r \in rows : r.channel_id = channel_id /\ r.message_id = message_id}

\* ON CONFLICT (channel_id, message_id) DO NOTHING is part of the statement
OnConflictAbsent == FALSE
OnConflictDoNothing == TRUE

\* RETURNING id; cur.fetchone(): the new row's id, None when nothing was inserted
ReturningAlways(inserted, id) == id
Returning(inserted, id) == IF inserted THEN id ELSE None

\* What the INSERT statement of caller c does in the store as it stands:
\*   "error"   no unique index matches the ON CONFLICT target, or a unique
\*             violation without the ON CONFLICT clause
\*   "nothing" a committed row holds the key
\*   "wait"    another transaction's uncommitted row holds the key: the
\*             statement waits for that transaction to end
\*   "insert"  the key is free
InsertOutcome(c) ==
    LET same == SameKey(Frame(c).channel_id, Frame(c).message_id) IN
    IF ~indexed THEN "error"
    ELSE IF \E r \in same : r.txn = 0
        THEN (IF OnConflictDoNothing THEN "nothing" ELSE "error")
    ELSE IF \E r \in same : r.txn # c THEN "wait"
    ELSE "insert"

NewRow(c) ==
    [id |-> nextId, channel_id |-> Frame(c).channel_id,
     message_id |-> Frame(c).message_id, payload |-> Frame(c).payload, txn |-> c]

\* The rows after an INSERT of caller c that met a committed row of its key:
\* DO NOTHING leaves the row as it is (DO UPDATE would overwrite the payload)
ConflictDoUpdate(c) ==
    {IF r \in SameKey(Frame(c).channel_id, Frame(c).message_id)
     THEN [r EXCEPT !.payload = Frame(c).payload] ELSE r : r \in rows}
ConflictDoNothing(c) == rows

\* The rows once the transaction of caller c has ended
Committed(c) == {IF r.txn = c THEN [r EXCEPT !.txn = 0] ELSE r : r \in rows}
RolledBack(c) == {r \in rows : r.txn # c}

\* init_db: create the table and its indexes if absent and commit. The
\* connection it takes in `with self.get_connection() as conn` is committed by
\* the with block and never handed to return_connection.
init_db ==
    /\ indexed' = TRUE
    /\ schemaRuns' = schemaRuns + 1
    /\ checked_out' = checked_out + 1
    /\ UNCHANGED <<rows, nextId, sv, faults>>

\* conn = self.get_connection(): outside the try block
get_connection(c) ==
    /\ Frame(c).pc = "get_connection"
    /\ checked_out < maxconn
    /\ checked_out' = checked_out + 1
    /\ sv' = SetFrame(c, [Frame(c) EXCEPT !.pc = "execute"])
    /\ UNCHANGED <<rows, nextId, indexed, schemaRuns, faults>>
    /\ UNCHANGED others

\* getconn raises (pool exhausted, or no connection can be opened): the
\* exception leaves save_message, no connection is held
get_connection_raises(c) ==
    /\ faults < MaxFaults
    /\ faults' = faults + 1
    /\ Frame(c).pc = "get_connection"
    /\ sv' = SetFrame(c, [Frame(c) EXCEPT !.pc = "returned", !.ret = "raise",
                                              !.faulted = TRUE])
    /\ UNCHANGED <<rows, nextId, indexed, schemaRuns, checked_out>>
    /\ UNCHANGED others

\* cur.execute(INSERT ... ON CONFLICT DO NOTHING RETURNING id); cur.fetchone()
execute(c) ==
    /\ Frame(c).pc = "execute"
    /\ InsertOutcome(c) # "wait"
    /\ nextId' = IF InsertOutcome(c) = "insert" THEN nextId + 1 ELSE nextId
    /\ CASE InsertOutcome(c) = "insert" ->
              /\ rows' = rows \cup {NewRow(c)}
              /\ sv' = SetFrame(c, [Frame(c) EXCEPT !.pc = "commit",
                                        !.result = Returning(TRUE, nextId)])
         [] InsertOutcome(c) = "nothing" ->
              /\ rows' = ConflictDoNothing(c)
              /\ sv' = SetFrame(c, [Frame(c) EXCEPT !.pc = "commit",
                                        !.result = Returning(FALSE,
                                            (CHOOSE r \in SameKey(Frame(c).channel_id,
                                                Frame(c).message_id) : r.txn = 0).id)])
         [] OTHER ->
              /\ rows' = rows
              /\ sv' = SetFrame(c, [Frame(c) EXCEPT !.pc = "rollback"])
    /\ UNCHANGED <<indexed, schemaRuns, checked_out, faults>>
    /\ UNCHANGED others

\* the statement fails for a reason other than the key: the server rejects it
\* (closed = FALSE) or the connection is lost (closed = TRUE)
execute_raises(c) ==
    /\ faults < MaxFaults
    /\ faults' = faults + 1
    /\ Frame(c).pc = "execute"
    /\ \E closed \in BOOLEAN :
         sv' = SetFrame(c, [Frame(c) EXCEPT !.pc = "rollback", !.faulted = TRUE,
                                !.closed = closed])
    /\ UNCHANGED <<rows, nextId, indexed, schemaRuns, checked_out>>
    /\ UNCHANGED others

\* conn.commit(); return True
commit(c) ==
    /\ Frame(c).pc = "commit"
    /\ rows' = Committed(c)
    /\ sv' = SetFrame(c, [Frame(c) EXCEPT !.pc = "finally", !.ret = "True",
                              !.added = Cardinality({r \in rows : r.txn = c})])
    /\ UNCHANGED <<nextId, indexed, schemaRuns, checked_out, faults>>
    /\ UNCHANGED others

\* conn.commit() raises, as execute does
commit_raises(c) ==
    /\ faults < MaxFaults
    /\ faults' = faults + 1
    /\ Frame(c).pc = "commit"
    /\ \E closed \in BOOLEAN :
         sv' = SetFrame(c, [Frame(c) EXCEPT !.pc = "rollback", !.faulted = TRUE,
                                !.closed = closed])
    /\ UNCHANGED <<rows, nextId, indexed, schemaRuns, checked_out>>
    /\ UNCHANGED others

\* except Exception: logger.error; conn.rollback(); return False
rollback(c) ==
    /\ Frame(c).pc = "rollback"
    /\ ~Frame(c).closed
    /\ rows' = RolledBack(c)
    /\ sv' = SetFrame(c, [Frame(c) EXCEPT !.pc = "finally", !.ret = "False"])
    /\ UNCHANGED <<nextId, indexed, schemaRuns, checked_out, faults>>
    /\ UNCHANGED others

\* conn.rollback() on a connection that is closed raises inside the handler:
\* the server has dropped the transaction, and the exception leaves
\* save_message after the finally block
rollback_raises(c) ==
    /\ Frame(c).pc = "rollback"
    /\ Frame(c).closed
    /\ rows' = RolledBack(c)
    /\ sv' = SetFrame(c, [Frame(c) EXCEPT !.pc = "finally", !.ret = "raise"])
    /\ UNCHANGED <<nextId, indexed, schemaRuns, checked_out, faults>>
    /\ UNCHANGED others

\* finally: self.return_connection(conn)
return_connection(c) ==
    /\ Frame(c).pc = "finally"
    /\ checked_out' = checked_out - 1
    /\ sv' = SetFrame(c, [Frame(c) EXCEPT !.pc = "returned"])
    /\ UNCHANGED <<rows, nextId, indexed, schemaRuns, faults>>
    /\ UNCHANGED others

\* One step of a save_message call in progress
save_message(c) ==
    \/ get_connection(c)
    \/ get_connection_raises(c)
    \/ execute(c)
    \/ execute_raises(c)
    \/ commit(c)
    \/ commit_raises(c)
    \/ rollback(c)
    \/ rollback_raises(c)
    \/ return_connection(c)

\* ------------------------------------------------------------------ config.py
\* The entries of the comma-separated TELEGRAM_CHANNELS setting, before strip
RawEntries == {"@a", " @b", " ", "x"}
strip(c) == IF c = " @b" THEN "@b" ELSE IF c = " " THEN "" ELSE c
\* channel.startswith('@') or ... : the supported formats
ValidFormat(c) == c \in {"@a", "@b"}
ChannelRefs == {strip(c) : c \in {e \in RawEntries : ValidFormat(strip(e))}}

RECURSIVE Stripped(_)
Stripped(raw) ==
    IF raw = <<>> THEN <<>>
    ELSE (IF strip(Head(raw)) # "" THEN <<strip(Head(raw))>> ELSE <<>>)
         \o Stripped(Tail(raw))

\* Settings.split_channels: the stripped non-empty entries; the setting is
\* refused when none is left or one has an unsupported format
split_channels(raw) == Stripped(raw)
Accepted(raw) ==
    /\ split_channels(raw) # <<>>
    /\ \A i \in 1..Len(split_channels(raw)) : ValidFormat(split_channels(raw)[i])

RawSettings == UNION {[1..n -> RawEntries] : n \in 1..MaxChannels}
Settings == {split_channels(raw) : raw \in {r \in RawSettings : Accepted(r)}}

\* Field(default=50, ge=1, le=100): the limit configured in this model
MESSAGES_LIMIT == 2

\* --------------------------------------------------------------- collector.py
\* scheduler.add_job(..., max_instances=1, coalesce=True, misfire_grace_time=None)
max_instances_two == 1 + 1
max_instances == 1
coalesce == TRUE

\* client.get_entity(channel).id of the channels that resolve
EntityOf(channel) == IF channel = "@a" THEN 101 ELSE 102

NoStats == [c \in {} |-> 0]
IdleTask ==
    [pc |-> "none", msgs |-> <<>>, payload |-> 0, k |-> 0, result |-> "none",
     why |-> "none", wait |-> 0, elapsed |-> 0, fetches |-> 0, saves |-> 0,
     badSaves |-> 0, out |-> [processed |-> 0, saved |-> 0, errors |-> 0]]
IdleCycle ==
    [pc |-> "idle", no |-> 0, vidx |-> 0, launched |-> <<>>, success |-> FALSE,
     critical |-> FALSE, summary |-> <<>>, dropped |-> FALSE]

Channel(i) == TELEGRAM_CHANNELS[i]
LaunchedAll == 1..Len(TELEGRAM_CHANNELS)
Launched == {cycle.launched[n] : n \in 1..Len(cycle.launched)}
SetTask(i, t) == [task EXCEPT ![i] = t]

\* client.get_messages(entity, limit): the most recent posts, newest first, at
\* most `limit` of them, of a channel that holds posts 1..top
RECURSIVE Recent(_, _)
Recent(top, limit) ==
    IF top = 0 \/ limit = 0 THEN <<>> ELSE <<top>> \o Recent(top - 1, limit - 1)

\* message.views (with message.date and message.text, the payload) as the n-th
\* cycle reads it: the counts grow from one cycle to the next
ViewsAt(n) == IF n - 1 < MaxPayload THEN n - 1 ELSE MaxPayload

\* sum(stats[field] for stats in self.collection_stats.values())
RECURSIVE Total(_, _)
Total(S, field) ==
    IF S = {} THEN 0
    ELSE LET c == CHOOSE x \in S : TRUE
         IN  collection_stats[c][field] + Total(S \ {c}, field)

\* _log_collection_summary: the record it logs
log_collection_summary ==
    [channels |-> Cardinality(DOMAIN collection_stats),
     processed |-> Total(DOMAIN collection_stats, "processed"),
     saved |-> Total(DOMAIN collection_stats, "saved"),
     errors |-> Total(DOMAIN collection_stats, "errors")]

\* success = any(result is True for result in results)
AllTrue == Launched # {} /\ \A i \in Launched : task[i].result = "True"
AnyTrue == \E i \in Launched : task[i].result = "True"

\* if not success: logger.critical(...)
CriticalAlways(success) == TRUE
Critical(success) == ~success

\* await asyncio.sleep(wait_time) is over once wait_time seconds have passed
SleepOverAtOnce(i) == TRUE
SleepOver(i) == task[i].elapsed >= task[i].wait

\* self.collection_stats = {} at the start of collect_all_channels
StatsKept == collection_stats
StatsReset == NoStats

\* run_collection has returned, normally or through its `except Exception`: the
\* executor gives the job's instance back
Held(n) == n
Released(n) == n - 1

\* start_collection: init_db, add_job with next_run_time = now, scheduler.start
start_collection ==
    /\ proc = "init"
    /\ init_db
    /\ proc' = "scheduling"
    /\ due' = 1
    /\ UNCHANGED <<hist, TELEGRAM_CHANNELS, instances, cycle,
                   collection_stats, task, running>>

\* one more run time of the interval trigger falls due
IntervalElapses ==
    /\ proc = "scheduling"
    /\ due < MaxDue
    /\ due' = due + 1
    /\ UNCHANGED <<dbVars, hist, TELEGRAM_CHANNELS, proc, instances,
                   cycle, collection_stats, task, running>>

\* BaseScheduler._process_jobs with a free instance: the due run times are
\* coalesced into one run and the executor starts run_collection
SubmitJob ==
    /\ proc = "scheduling"
    /\ due > 0
    /\ instances < max_instances
    /\ cycle.no < MaxCycles
    /\ due' = 0
    /\ instances' = instances + 1
    /\ IF cycle.pc = "idle"
       THEN cycle' = [cycle EXCEPT !.pc = "start", !.no = @ + 1]
       ELSE cycle' = cycle
    /\ UNCHANGED <<dbVars, hist, TELEGRAM_CHANNELS, proc, collection_stats,
                   task, running>>

\* ... with max_instances reached: the run is skipped with a warning
SkipJob ==
    /\ proc = "scheduling"
    /\ due > 0
    /\ instances >= max_instances
    /\ due' = 0
    /\ cycle' = [cycle EXCEPT !.dropped = TRUE]
    /\ UNCHANGED <<dbVars, hist, TELEGRAM_CHANNELS, proc, instances,
                   collection_stats, task, running>>

\* collect_all_channels up to the session: success = False, the statistics
\* are reset, the client is created and `async with client` connects
OpenClient ==
    /\ cycle.pc = "start"
    /\ cycle' = [cycle EXCEPT !.pc = "validate", !.vidx = 1, !.launched = <<>>,
                    !.success = FALSE, !.critical = FALSE, !.summary = <<>>]
    /\ collection_stats' = StatsReset
    /\ task' = [i \in Tasks |-> IdleTask]
    /\ UNCHANGED <<dbVars, hist, TELEGRAM_CHANNELS, proc, due, instances, running>>

\* `async with client` raises while connecting: run_collection catches the
\* exception, logs it and returns; the executor releases the instance
OpenClientRaises ==
    /\ cycle.pc = "start"
    /\ cycle' = [IdleCycle EXCEPT !.no = cycle.no]
    /\ collection_stats' = StatsReset
    /\ task' = [i \in Tasks |-> IdleTask]
    /\ instances' = Released(instances)
    /\ UNCHANGED <<dbVars, hist, TELEGRAM_CHANNELS, proc, due, running>>

\* validate_channel returns True: the collector's coroutine joins the tasks
ValidateOk ==
    /\ cycle.pc = "validate"
    /\ cycle.vidx <= Len(TELEGRAM_CHANNELS)
    /\ strip(Channel(cycle.vidx)) # ""
    /\ cycle' = [cycle EXCEPT !.vidx = @ + 1,
                              !.launched = Append(@, cycle.vidx)]
    /\ UNCHANGED <<dbVars, hist, TELEGRAM_CHANNELS, proc, due, instances, collection_stats, task, running>>

\* validate_channel catches ValueError (invalid reference) or any other
\* Exception (no access), logs it and returns False: the channel is skipped
ValidateFails ==
    /\ cycle.pc = "validate"
    /\ cycle.vidx <= Len(TELEGRAM_CHANNELS)
    /\ \E e \in {"ValueError", "Exception"} :
         cycle' = [cycle EXCEPT !.vidx = @ + 1]
    /\ UNCHANGED <<dbVars, hist, TELEGRAM_CHANNELS, proc, due, instances, collection_stats, task, running>>

\* asyncio.gather(*tasks, return_exceptions=True): every coroutine starts and
\* runs to its first await, client.get_entity
Gather ==
    /\ cycle.pc = "validate"
    /\ cycle.vidx > Len(TELEGRAM_CHANNELS)
    /\ cycle' = [cycle EXCEPT !.pc = IF cycle.launched = <<>> THEN "exit" ELSE "gather"]
    /\ task' = [i \in Tasks |->
                  IF i \in Launched THEN [IdleTask EXCEPT !.pc = "get_entity"]
                  ELSE IdleTask]
    /\ UNCHANGED <<dbVars, hist, TELEGRAM_CHANNELS, proc, due, instances, collection_stats, running>>

\* The exceptions of the remote client that collect_channel_messages names,
\* and any other
RemoteErrors == {"ChannelPrivateError", "ChatAdminRequiredError", "Exception"}
ResumableNoSleeper(i) ==
    /\ cycle.pc = "gather"
    /\ running = 0
    /\ i \in Launched
    /\ \A j \in Launched : task[j].pc = "sleep" => j = i
Resumable(i) ==
    /\ cycle.pc = "gather"
    /\ running = 0
    /\ i \in Launched

\* except ChannelPrivateError / ChatAdminRequiredError / Exception: log and
\* return False, whichever of them e is; `at` is where it was raised
Raised(t, e, at) == [t EXCEPT !.pc = "done", !.result = "raise", !.why = at]
Failed(t, e, at) == [t EXCEPT !.pc = "done", !.result = "False", !.why = at]
\* except FloodWaitError as e: log, await asyncio.sleep(e.seconds)
Sleeping(t, s) == [t EXCEPT !.pc = "sleep", !.why = "FloodWaitError", !.wait = s]

\* entity = await client.get_entity(channel)
get_entity(i) ==
    /\ Resumable(i)
    /\ task[i].pc = "get_entity"
    /\ task' = SetTask(i, [task[i] EXCEPT !.pc = "get_messages"])
    /\ UNCHANGED <<dbVars, hist, TELEGRAM_CHANNELS, proc, due, instances, cycle, collection_stats, running>>

get_entity_raises(i) ==
    /\ Resumable(i)
    /\ task[i].pc = "get_entity"
    /\ \E e \in RemoteErrors : task' = SetTask(i, Failed(task[i], e, "get_entity"))
    /\ UNCHANGED <<dbVars, hist, TELEGRAM_CHANNELS, proc, due, instances, cycle, collection_stats, running>>

get_entity_flood(i) ==
    /\ Resumable(i)
    /\ task[i].pc = "get_entity"
    /\ \E s \in 1..MaxWait : task' = SetTask(i, Sleeping(task[i], s))
    /\ UNCHANGED <<dbVars, hist, TELEGRAM_CHANNELS, proc, due, instances, cycle, collection_stats, running>>

\* messages = await client.get_messages(entity, limit=settings.MESSAGES_LIMIT);
\* self.collection_stats[channel] = {processed: len(messages), saved: 0,
\* errors: 0}; the for loop starts, or with no message the collector logs the
\* statistics and returns True
get_messages(i) ==
    /\ Resumable(i)
    /\ task[i].pc = "get_messages"
    /\ \E top \in 0..MaxPosts :
         LET msgs == Recent(top, MESSAGES_LIMIT)
             payload == ViewsAt(cycle.no)
             fresh == [processed |-> Len(msgs), saved |-> 0, errors |-> 0]
         IN  /\ collection_stats' =
                   [c \in DOMAIN collection_stats \cup {Channel(i)} |->
                      IF c = Channel(i) THEN fresh ELSE collection_stats[c]]
             /\ task' = SetTask(i,
                   [task[i] EXCEPT !.msgs = msgs, !.payload = payload,
                        !.fetches = @ + 1, !.out = fresh, !.k = 1,
                        !.pc = IF msgs = <<>> THEN "done" ELSE "save",
                        !.result = IF msgs = <<>> THEN "True" ELSE "none",
                        !.why = IF msgs = <<>> THEN "return" ELSE "none"])
             /\ running' = IF msgs = <<>> THEN 0 ELSE i
    /\ UNCHANGED <<dbVars, hist, TELEGRAM_CHANNELS, proc, due, instances, cycle>>

get_messages_raises(i) ==
    /\ Resumable(i)
    /\ task[i].pc = "get_messages"
    /\ \E e \in RemoteErrors :
         task' = SetTask(i, [Failed(task[i], e, "get_messages") EXCEPT !.fetches = @ + 1])
    /\ UNCHANGED <<dbVars, hist, TELEGRAM_CHANNELS, proc, due, instances, cycle, collection_stats, running>>

get_messages_flood(i) ==
    /\ Resumable(i)
    /\ task[i].pc = "get_messages"
    /\ \E s \in 1..MaxWait :
         task' = SetTask(i, [Sleeping(task[i], s) EXCEPT !.fetches = @ + 1])
    /\ UNCHANGED <<dbVars, hist, TELEGRAM_CHANNELS, proc, due, instances, cycle, collection_stats, running>>

\* a second passes for the tasks that sleep
Second ==
    /\ cycle.pc = "gather"
    /\ \E i \in Launched : task[i].pc = "sleep" /\ task[i].elapsed < task[i].wait
    /\ task' = [i \in Tasks |->
                  IF task[i].pc = "sleep" /\ task[i].elapsed < task[i].wait
                  THEN [task[i] EXCEPT !.elapsed = @ + 1] ELSE task[i]]
    /\ UNCHANGED <<dbVars, hist, TELEGRAM_CHANNELS, proc, due, instances, cycle, collection_stats, running>>

\* asyncio.sleep(wait_time) returns; return False
Wake(i) ==
    /\ Resumable(i)
    /\ task[i].pc = "sleep"
    /\ SleepOver(i)
    /\ task' = SetTask(i, [task[i] EXCEPT !.pc = "done", !.result = "False"])
    /\ UNCHANGED <<dbVars, hist, TELEGRAM_CHANNELS, proc, due, instances, cycle, collection_stats, running>>

\* for message in messages: self.db.save_message(channel_id=str(entity.id),
\* message_id=message.id, published_at, text, views): a plain call, the task
\* keeps the thread
SaveCall(i) ==
    /\ cycle.pc = "gather"
    /\ running = i
    /\ task[i].pc = "save"
    /\ Frame(i).pc = "idle"
    /\ sv' = SetFrame(i, [IdleFrame EXCEPT !.pc = "get_connection",
                              !.channel_id = str(EntityOf(Channel(i))),
                              !.message_id = task[i].msgs[task[i].k],
                              !.payload = task[i].payload])
    /\ task' = SetTask(i, [task[i] EXCEPT !.saves = @ + 1])
    /\ UNCHANGED <<rows, nextId, indexed, schemaRuns, checked_out, faults, hist,
                   TELEGRAM_CHANNELS, proc, due, instances, cycle,
                   collection_stats, running>>

\* The statistics after save_message has returned ret for the channel
CountedSwapped(channel, ret) ==
    [collection_stats EXCEPT
        ![channel].saved = IF ret = "False" THEN @ + 1 ELSE @,
        ![channel].errors = IF ret = "True" THEN @ + 1 ELSE @]
CountedTwice(channel, ret) ==
    [collection_stats EXCEPT
        ![channel].saved = @ + 1,
        ![channel].errors = @ + 1]
Counted(channel, ret) ==
    [collection_stats EXCEPT
        ![channel].saved = IF ret = "True" THEN @ + 1 ELSE @,
        ![channel].errors = IF ret = "False" THEN @ + 1 ELSE @]

\* save_message returns: saved += 1 on True, errors += 1 on False, and the
\* loop goes on; after the last message the collector logs the statistics and
\* returns True. An exception raised by save_message is caught by
\* `except Exception`: the collector logs it and returns False.
SaveReturn(i) ==
    /\ cycle.pc = "gather"
    /\ running = i
    /\ task[i].pc = "save"
    /\ Frame(i).pc = "returned"
    /\ sv' = SetFrame(i, IdleFrame)
    /\ LET ret == Frame(i).ret
           last == task[i].k = Len(task[i].msgs)
           t == [task[i] EXCEPT
                   !.badSaves = IF Frame(i).faulted THEN @ + 1 ELSE @,
                   !.out.saved = IF ret = "True" THEN @ + 1 ELSE @,
                   !.out.errors = IF ret = "False" THEN @ + 1 ELSE @]
       IN  IF ret = "raise"
           THEN /\ task' = SetTask(i, Failed(t, "Exception", "save_message"))
                /\ running' = 0
                /\ UNCHANGED collection_stats
           ELSE /\ collection_stats' = Counted(Channel(i), ret)
                /\ task' = SetTask(i,
                      IF last
                      THEN [t EXCEPT !.pc = "done", !.result = "True", !.why = "return"]
                      ELSE [t EXCEPT !.k = @ + 1])
                /\ running' = IF last THEN 0 ELSE i
    /\ UNCHANGED <<rows, nextId, indexed, schemaRuns, checked_out, faults, hist,
                   TELEGRAM_CHANNELS, proc, due, instances, cycle>>

AnyDone == \E i \in Launched : task[i].pc = "done"
AllDone == \A i \in Launched : task[i].pc = "done"

\* gather returns once every task has ended: success is computed, the session
\* is left, the critical message is logged when success is False, and
\* _log_collection_summary logs the totals
FinishCycle ==
    /\ \/ cycle.pc = "gather" /\ AllDone
       \/ cycle.pc = "exit"
    /\ LET success == IF cycle.launched # <<>> THEN AnyTrue ELSE FALSE IN
       cycle' = [cycle EXCEPT !.pc = "done", !.success = success,
                    !.critical = Critical(success),
                    !.summary = log_collection_summary]
    /\ UNCHANGED <<dbVars, hist, TELEGRAM_CHANNELS, proc, due, instances, collection_stats, task, running>>

\* run_collection returns and the executor releases the job's instance
JobDone ==
    /\ cycle.pc = "done"
    /\ cycle' = [IdleCycle EXCEPT !.no = cycle.no]
    /\ task' = [i \in Tasks |-> IdleTask]
    /\ instances' = Released(instances)
    /\ UNCHANGED <<dbVars, hist, TELEGRAM_CHANNELS, proc, due,
                   collection_stats, running>>

Init ==
    /\ rows = {}
    /\ nextId = 1
    /\ indexed = FALSE
    /\ schemaRuns = 0
    /\ checked_out = 0
    /\ sv = [c \in Callers |-> IdleFrame]
    /\ faults = 0
    /\ hist = [w \in Writers |-> <<>>]
    /\ TELEGRAM_CHANNELS \in Settings
    /\ proc = "init"
    /\ due = 0
    /\ instances = 0
    /\ cycle = IdleCycle
    /\ collection_stats = NoStats
    /\ task = [i \in Tasks |-> IdleTask]
    /\ running = 0

Next ==
    \/ start_collection
    \/ IntervalElapses
    \/ SubmitJob
    \/ SkipJob
    \/ OpenClient
    \/ OpenClientRaises
    \/ ValidateOk
    \/ ValidateFails
    \/ Gather
    \/ \E i \in Tasks : get_entity(i)
    \/ \E i \in Tasks : get_entity_raises(i)
    \/ \E i \in Tasks : get_entity_flood(i)
    \/ \E i \in Tasks : get_messages(i)
    \/ \E i \in Tasks : get_messages_raises(i)
    \/ \E i \in Tasks : get_messages_flood(i)
    \/ Second
    \/ \E i \in Tasks : Wake(i)
    \/ \E i \in Tasks : SaveCall(i)
    \/ \E i \in Tasks : save_message(i)
    \/ \E i \in Tasks : SaveReturn(i)
    \/ FinishCycle
    \/ JobDone

Spec == Init /\ [][Next]_vars

\* ------------------------------------------- concurrent callers (SpecSave)
InFlight(w) == Frame(w).pc # "idle"
SameCall(f, channel_id, message_id) ==
    f.channel_id = channel_id /\ f.message_id = message_id

\* A writer calls save_message(channel_id, message_id, published_at, text, views)
WCall(w) ==
    /\ indexed
    /\ ~InFlight(w)
    /\ Len(hist[w]) < MaxCalls
    /\ \E channel_id \in ChannelIds, message_id \in MessageIds, payload \in Payloads :
         sv' = SetFrame(w, [IdleFrame EXCEPT !.pc = "get_connection",
                                !.channel_id = channel_id, !.message_id = message_id,
                                !.payload = payload])
    /\ UNCHANGED <<rows, nextId, indexed, schemaRuns, checked_out, faults, hist>>
    /\ UNCHANGED collVars

\* The call returns (or raises) to the writer
WReturn(w) ==
    /\ Frame(w).pc = "returned"
    /\ hist' = [hist EXCEPT ![w] = Append(@, Frame(w))]
    /\ sv' = SetFrame(w, IdleFrame)
    /\ UNCHANGED <<rows, nextId, indexed, schemaRuns, checked_out, faults>>
    /\ UNCHANGED collVars

WInitDb ==
    /\ schemaRuns < MaxSchemaRuns
    /\ \A w \in Writers : ~InFlight(w) /\ hist[w] = <<>>
    /\ init_db
    /\ UNCHANGED others

InitSave ==
    /\ rows = {}
    /\ nextId = 1
    /\ indexed = FALSE
    /\ schemaRuns = 0
    /\ checked_out = 0
    /\ sv = [c \in Callers |-> IdleFrame]
    /\ faults = 0
    /\ hist = [w \in Writers |-> <<>>]
    /\ TELEGRAM_CHANNELS = <<"@a">>
    /\ proc = "init"
    /\ due = 0
    /\ instances = 0
    /\ cycle = IdleCycle
    /\ collection_stats = NoStats
    /\ task = [i \in Tasks |-> IdleTask]
    /\ running = 0

NextSave ==
    \/ WInitDb
    \/ \E w \in Writers : WCall(w)
    \/ \E w \in Writers : save_message(w)
    \/ \E w \in Writers : WReturn(w)

SpecSave == InitSave /\ [][NextSave]_vars

\* ------------------------------------------------------------ store claims
StoredRows == {r \in rows : r.txn = 0}
Records(channel_id, message_id) ==
    {<<w, i>> \in Writers \X (1..MaxCalls) :
        i <= Len(hist[w]) /\ SameCall(hist[w][i], channel_id, message_id)}
Calling(channel_id, message_id) ==
    {w \in Writers : InFlight(w) /\ SameCall(Frame(w), channel_id, message_id)}

\* C1: no two rows of telegram_posts, committed or not, share a
\* (channel_id, message_id) pair, whatever save_message calls have run or are
\* running.
C1_UniqueKey ==
    \A r1 \in rows, r2 \in rows :
        (r1.channel_id = r2.channel_id /\ r1.message_id = r2.message_id) => r1 = r2

\* Two writers have stored rows of the same message id under different channels
\* and a later call on one of the keys has completed.
C1_Witness ==
    /\ \E r1 \in StoredRows, r2 \in StoredRows :
          r1.channel_id # r2.channel_id /\ r1.message_id = r2.message_id
    /\ \E w \in Writers : Len(hist[w]) = MaxCalls /\ hist[w][MaxCalls].result = None

\* C2: for the calls made with one key, none of which met a database failure:
\* at most one of them has seen RETURNING give a row, and once all have ended,
\* every one returned True, exactly one saw a row and exactly one row is stored.
C2_OneInsertWins ==
    \A channel_id \in ChannelIds, message_id \in MessageIds :
        LET done == Records(channel_id, message_id)
            live == Calling(channel_id, message_id)
            sawRow == {d \in done : hist[d[1]][d[2]].result # None}
            seeRow == {w \in live : Frame(w).result # None}
            clean == /\ \A d \in done : ~hist[d[1]][d[2]].faulted
                     /\ \A w \in live : ~Frame(w).faulted
        IN  clean =>
              /\ Cardinality(sawRow) + Cardinality(seeRow) <= 1
              /\ \A d \in done : hist[d[1]][d[2]].ret = "True"
              /\ (live = {} /\ done # {}) =>
                    /\ Cardinality(sawRow) = 1
                    /\ Cardinality({r \in StoredRows :
                          r.channel_id = channel_id /\ r.message_id = message_id}) = 1

\* Both writers are inside save_message with the same key at the same time, one
\* holding the inserted row's id and the other an empty result.
C2_Witness ==
    \E w \in Writers, v \in Writers :
        /\ w # v
        /\ SameCall(Frame(w), Frame(v).channel_id, Frame(v).message_id)
        /\ Frame(w).pc = "returned" /\ Frame(v).pc = "returned"
        /\ Frame(w).ret = "True" /\ Frame(v).ret = "True"
        /\ Frame(w).result # None /\ Frame(v).result = None
        /\ hist[w] = <<>> /\ hist[v] = <<>>

\* C3: when a writer calls save_message twice in sequence with the same key, the
\* first call returning True and the second meeting no database failure, the
\* second call returns True, sees no inserted row, adds no row, and one row is
\* stored under the key.
C3_SecondCallIsNoOp ==
    \A w \in Writers :
        \A i \in 1..MaxCalls, j \in 1..MaxCalls :
            (/\ i < j /\ j <= Len(hist[w])
             /\ SameCall(hist[w][j], hist[w][i].channel_id, hist[w][i].message_id)
             /\ hist[w][i].ret = "True"
             /\ ~hist[w][j].faulted)
            => /\ hist[w][j].ret = "True"
               /\ hist[w][j].result = None
               /\ hist[w][j].added = 0
               /\ Cardinality({r \in StoredRows : SameCall(r, hist[w][i].channel_id,
                                    hist[w][i].message_id)}) = 1

\* A writer has made two calls in sequence with one key and different payloads;
\* the first inserted the row.
C3_Witness ==
    \E w \in Writers :
        /\ Len(hist[w]) = 2
        /\ SameCall(hist[w][2], hist[w][1].channel_id, hist[w][1].message_id)
        /\ hist[w][1].payload # hist[w][2].payload
        /\ hist[w][1].result # None /\ hist[w][1].ret = "True"
        /\ hist[w][2].ret = "True"

\* ------------------------------------------------------------ cycle claims
Ended == cycle.pc = "done"
FetchFailed(i) ==
    /\ task[i].pc = "done"
    /\ task[i].result = "False"
    /\ task[i].why \in {"get_entity", "get_messages", "FloodWaitError"}

RECURSIVE SumOut(_, _)
SumOut(S, field) ==
    IF S = {} THEN 0
    ELSE LET i == CHOOSE x \in S : TRUE
         IN  task[i].out[field] + SumOut(S \ {i}, field)

\* C4: at the end of a cycle that launched two collectors, A failing before it
\* had fetched anything and B returning True, the summary's processed, saved and
\* errors are B's counts, success is True, and A has counted nothing.
C4_PartialFailureIsolation ==
    \A a \in Tasks, b \in Tasks :
        (/\ Ended /\ Launched = {a, b} /\ a # b
         /\ FetchFailed(a)
         /\ task[b].result = "True")
        => /\ cycle.summary.processed = task[b].out.processed
           /\ cycle.summary.processed = Len(task[b].msgs)
           /\ cycle.summary.saved = task[b].out.saved
           /\ cycle.summary.errors = task[b].out.errors
           /\ cycle.success
           /\ task[a].out = IdleTask.out
           /\ task[a].saves = 0

\* A cycle has ended in which one channel's fetch was refused and the other
\* channel's collector saved MaxPosts items.
C4_Witness ==
    \E a \in Tasks, b \in Tasks :
        /\ Ended /\ Launched = {a, b} /\ Channel(a) # Channel(b)
        /\ FetchFailed(a) /\ task[a].why = "get_messages"
        /\ task[b].result = "True" /\ task[b].out.saved = MaxPosts

C6_NoDoubleRun ==
    /\ [](instances <= 1)
    /\ [][/\ (instances >= 1 /\ due > 0 /\ due' = 0) =>
               (/\ instances' = instances
                /\ cycle' = [cycle EXCEPT !.dropped = TRUE]
                /\ task' = task /\ collection_stats' = collection_stats)
          /\ cycle'.no # cycle.no =>
               (/\ instances = 0 /\ instances' = 1
                /\ cycle.pc = "idle"
                /\ due > 0 /\ due' = 0
                /\ cycle'.no = cycle.no + 1)]_vars

\* A due run was dropped while the collectors of a cycle were running.
C6_Witness ==
    /\ cycle.pc = "gather" /\ cycle.dropped
    /\ instances = 1 /\ due = 0

C8_TotalsAreSums ==
    Ended => /\ cycle.summary.processed = SumOut(Launched, "processed")
             /\ cycle.summary.saved = SumOut(Launched, "saved")
             /\ cycle.summary.errors = SumOut(Launched, "errors")

\* C9: the summary's channel count is the number of collectors launched.
C9_ChannelsAttempted ==
    Ended => cycle.summary.channels = Cardinality(Launched)

\* C10: a save that fails for a reason other than a duplicate adds one to the
\* channel's errors and the collector goes on: once a collector that fetched
\* its messages has ended, it has passed every message to save_message, its
\* errors are the failed saves, and it returned True.
C10_ItemLevelIsolation ==
    \A i \in Launched :
        (task[i].pc = "done" /\ task[i].why \in {"return", "save_message"})
        => /\ task[i].saves = Len(task[i].msgs)
           /\ task[i].out.errors = task[i].badSaves
           /\ task[i].result = "True"

\* Where an exception other than FloodWaitError left the collector's try block
Unexpected == {"get_entity", "get_messages", "save_message"}
Emitted == DOMAIN cycle.summary # {}

\* C11: a collector stopped by an exception at get_entity, at get_messages or
\* in its save loop has returned False and the cycle goes on; the step that
\* stops it changes no other collector, nor the cycle, nor the statistics; and
\* when the cycle ends every launched collector has ended with its own result,
\* True exactly when it reached its return, and the summary has been logged.
C11_ExceptionIsChannelFailure ==
    /\ [](\A i \in Launched :
            (task[i].pc = "done" /\ task[i].why \in Unexpected)
            => (task[i].result = "False" /\ cycle.pc \in {"gather", "done"}))
    /\ [](Ended => /\ Emitted
                   /\ \A j \in Launched :
                        /\ task[j].pc = "done"
                        /\ task[j].result \in {"True", "False"}
                        /\ task[j].result = "True" <=> task[j].why = "return")
    /\ [][\A i \in Tasks :
            (task[i].pc # "done" /\ task'[i].pc = "done" /\ task'[i].why \in Unexpected)
            => /\ \A j \in Tasks \ {i} : task'[j] = task[j]
               /\ cycle' = cycle
               /\ collection_stats' = collection_stats]_vars

\* A cycle has ended and logged its summary: one collector was stopped by an
\* exception in its save loop after it had saved an item, the other had its
\* fetch refused, or returned True with MaxPosts items saved.
C11_Witness ==
    \E a \in Launched, b \in Launched :
        /\ Ended /\ Emitted /\ a # b
        /\ task[a].why = "save_message" /\ task[a].result = "False"
        /\ task[b].why = "return" /\ task[b].out.saved = MaxPosts

\* The keys collector i passes to save_message and the rows stored under them
KeysOf(i) == {task[i].msgs[n] : n \in 1..Len(task[i].msgs)}
StoredUnder(i) ==
    {r \in StoredRows : /\ r.channel_id = str(EntityOf(Channel(i)))
                        /\ r.message_id \in KeysOf(i)}
OnlyCollectorOf(i) == \A j \in Launched \ {i} : Channel(j) # Channel(i)

\* C12: a collector that fetched n items and returned, none of its saves
\* having met a database failure, has counted processed n, saved n, errors 0,
\* whether the items were new or already stored by an earlier cycle; these are
\* the channel's statistics when no other collector shares its reference; and
\* n rows are stored under the n keys.
C12_RerunIdempotence ==
    \A i \in Launched :
        (task[i].pc = "done" /\ task[i].why = "return" /\ task[i].badSaves = 0)
        => LET n == Len(task[i].msgs) IN
           /\ task[i].out = [processed |-> n, saved |-> n, errors |-> 0]
           /\ OnlyCollectorOf(i) => collection_stats[Channel(i)] = task[i].out
           /\ Cardinality(StoredUnder(i)) = n

\* The second cycle's collector has returned after MaxPosts items that the
\* first cycle stored: the rows keep the first cycle's payload.
C12_Witness ==
    \E i \in Launched :
        /\ cycle.no = 2 /\ task[i].pc = "done" /\ task[i].why = "return"
        /\ Len(task[i].msgs) = MaxPosts /\ OnlyCollectorOf(i)
        /\ collection_stats[Channel(i)] =
              [processed |-> MaxPosts, saved |-> MaxPosts, errors |-> 0]
        /\ Cardinality(StoredUnder(i)) = MaxPosts
        /\ \A r \in StoredUnder(i) : r.payload = ViewsAt(1) /\ r.payload # task[i].payload

\* A step that ends a cycle in which no collector returned True: run_collection
\* returns after a cycle without success, or after the session failed to open
TotalFailureEnds ==
    \/ cycle.pc = "done" /\ ~cycle.success /\ cycle'.pc = "idle"
    \/ cycle.pc = "start" /\ cycle'.pc = "idle"

\* C13: the step that ends a cycle without success releases the job's instance
\* and leaves the scheduler running; between cycles no instance is held; and
\* whenever the scheduler runs, a run is due and no instance is held, the
\* scheduler can start the next cycle (up to MaxCycles).
C13_TotalFailureNotFatal ==
    /\ [][TotalFailureEnds =>
            (instances' = 0 /\ proc' = "scheduling" /\ due' = due)]_vars
    /\ []((cycle.pc = "idle" /\ cycle.no >= 1) =>
            (instances = 0 /\ proc = "scheduling"))
    /\ []((proc = "scheduling" /\ instances = 0 /\ due > 0 /\ cycle.no < MaxCycles)
            => ENABLED SubmitJob)

\* The scheduler has started the second cycle after a first cycle in which no
\* fetch succeeded: the statistics the first cycle left are empty.
C13_Witness ==
    /\ cycle.no = 2 /\ cycle.pc = "start" /\ instances = 1
    /\ proc = "scheduling"
    /\ DOMAIN collection_stats = {}

\* The entries whose validate_channel call returned True in this cycle, and
\* the references they carry
Gated == {cycle.launched[n] : n \in 1..Len(cycle.launched)}
GatedRefs == {Channel(i) : i \in Gated}

\* C14: the entries are validated in configuration order, before any collector
\* runs; an entry whose validation failed has no collector and no save; a
\* reference none of whose entries validated has no statistics entry; and the
\* summary counts only references that validated.
C14_ValidationGate ==
    /\ \A n \in 1..Len(cycle.launched) :
          /\ cycle.launched[n] < cycle.vidx
          /\ n > 1 => cycle.launched[n - 1] < cycle.launched[n]
    /\ cycle.pc = "validate" =>
          \A i \in Tasks : task[i] = IdleTask /\ Frame(i).pc = "idle"
    /\ \A i \in Tasks \ Gated : task[i] = IdleTask /\ Frame(i).pc = "idle"
    /\ cycle.pc \in {"validate", "gather", "exit", "done"} =>
          DOMAIN collection_stats \subseteq GatedRefs
    /\ Ended => cycle.summary.channels <= Cardinality(GatedRefs)
    /\ (Ended /\ Gated = {}) =>
          cycle.summary = [channels |-> 0, processed |-> 0, saved |-> 0, errors |-> 0]

\* A cycle over two channels has ended: the first entry failed validation, the
\* second was collected with MaxPosts items, and the summary counts only it.
C14_Witness ==
    /\ Ended /\ Len(TELEGRAM_CHANNELS) = 2 /\ Channel(1) # Channel(2)
    /\ Gated = {2}
    /\ task[2].result = "True" /\ task[2].out.saved = MaxPosts
    /\ DOMAIN collection_stats = {Channel(2)}
    /\ cycle.summary.channels = 1 /\ cycle.summary.processed = MaxPosts

\* C15: while a launched collector has not ended, the cycle has computed no
\* success flag, logged no critical message and no summary; once it has, every
\* launched collector has ended; and a collector that ends, with either
\* result, changes no other collector and does not move the cycle on.
C15_JoinBarrier ==
    /\ []((\E i \in Launched : task[i].pc # "done") =>
            (~Ended /\ ~Emitted /\ ~cycle.success /\ ~cycle.critical))
    /\ []((Ended \/ Emitted \/ cycle.success \/ cycle.critical) =>
            \A i \in Launched : task[i].pc = "done")
    /\ [][\A i \in Tasks :
            (task[i].pc # "done" /\ task'[i].pc = "done")
            => /\ \A j \in Tasks \ {i} : task'[j] = task[j]
               /\ cycle' = cycle]_vars

\* One collector has returned True while another is still waiting out its
\* backoff: the cycle is at the join and has logged nothing.
C15_Witness ==
    \E a \in Launched, b \in Launched :
        /\ cycle.pc = "gather" /\ ~Emitted
        /\ task[a].pc = "done" /\ task[a].result = "True"
        /\ task[b].pc = "sleep" /\ task[b].elapsed < task[b].wait

\* C16: every entry of the statistics, and every collector's own counts, have
\* saved + errors <= processed with no count negative, in the middle of a save
\* loop and after a collector was stopped by an exception as well.
C16_CountsBounded ==
    /\ \A c \in DOMAIN collection_stats :
          /\ collection_stats[c].processed >= 0
          /\ collection_stats[c].saved >= 0
          /\ collection_stats[c].errors >= 0
          /\ collection_stats[c].saved + collection_stats[c].errors
                <= collection_stats[c].processed
    /\ \A i \in Tasks :
          /\ task[i].out.saved >= 0 /\ task[i].out.errors >= 0
          /\ task[i].out.saved + task[i].out.errors <= task[i].out.processed
          /\ task[i].out.processed = Len(task[i].msgs)

\* A collector was stopped by an exception in its save loop after one item was
\* saved, and a second collector of the same reference is in the middle of its
\* own save loop: the entry they share holds the second collector's counts,
\* one of two items saved so far.
C16_Witness ==
    \E a \in Launched, b \in Launched :
        /\ a # b /\ Channel(a) = Channel(b)
        /\ task[a].pc = "done" /\ task[a].why = "save_message"
        /\ task[a].out.saved = 1
        /\ task[b].pc = "save" /\ task[b].k = 2 /\ Len(task[b].msgs) = 2
        /\ collection_stats[Channel(b)] = [processed |-> 2, saved |-> 1, errors |-> 0]

\* Collector i is between two saves of its loop
BetweenSaves(i) ==
    /\ cycle.pc = "gather" /\ task[i].pc = "save"
    /\ task[i].k > 1 /\ Frame(i).pc = "idle"
\* The step collector j is waiting to take
StepOf(j) ==
    \/ get_entity(j)
    \/ get_messages(j)
    \/ Wake(j)
    \/ SaveCall(j)

\* C17: while one collector is between two saves of its loop, every other
\* launched collector that has not ended can take its next step (resolve,
\* fetch, wake up or save).
C17_SaveLoopYields ==
    \A i \in Launched, j \in Launched :
        (/\ i # j /\ BetweenSaves(i)
         /\ \/ task[j].pc \in {"get_entity", "get_messages"}
            \/ task[j].pc = "sleep" /\ SleepOver(j))
        => ENABLED StepOf(j)

\* Collector i is waiting out its retry-after interval
BackingOff(i) ==
    /\ cycle.pc = "gather" /\ task[i].pc = "sleep" /\ ~SleepOver(i)

\* C18: while one collector waits out its retry-after interval it does not
\* hold the thread and the cycle stays at the join; every other launched
\* collector can take its next step: resolve and fetch when no save loop runs,
\* and each step of its save loop when it is the one saving.
C18_BackoffSuspendsOneTask ==
    \A i \in Launched :
        BackingOff(i) =>
           /\ running # i
           /\ ~Ended /\ ~Emitted
           /\ \A j \in Launched \ {i} :
                /\ (running = 0 /\ task[j].pc = "get_entity") => ENABLED get_entity(j)
                /\ (running = 0 /\ task[j].pc = "get_messages") => ENABLED get_messages(j)
                /\ (running = j /\ task[j].pc = "save") =>
                      ENABLED (SaveCall(j) \/ save_message(j) \/ SaveReturn(j))

\* While one collector is in the middle of its backoff, the other has fetched
\* MaxPosts items, saved the first and is saving the second.
C18_Witness ==
    \E i \in Launched, j \in Launched :
        /\ BackingOff(i) /\ task[i].elapsed >= 1
        /\ task[j].pc = "save" /\ task[j].k = MaxPosts /\ task[j].out.saved = MaxPosts - 1
        /\ Frame(j).pc = "commit"

\* The completed calls made on one channel, the (message_id, payload) pairs
\* they carried, and the pairs stored under the channel
DoneOn(channel_id) ==
    {<<w, n>> \in Writers \X (1..MaxCalls) :
        n <= Len(hist[w]) /\ hist[w][n].channel_id = channel_id}
CallsOn(channel_id) ==
    {<<hist[d[1]][d[2]].message_id, hist[d[1]][d[2]].payload>> : d \in DoneOn(channel_id)}
StoreOf(channel_id) ==
    {<<r.message_id, r.payload>> : r \in {s \in StoredRows : s.channel_id = channel_id}}
\* Every call made on the channel has returned, none met a database failure
Settled(channel_id) ==
    /\ \A w \in Writers : InFlight(w) => Frame(w).channel_id # channel_id
    /\ \A d \in DoneOn(channel_id) : ~hist[d[1]][d[2]].faulted

\* C19, as stated: two channels that received the same set of calls
\* (message_id, payload), in whatever order, hold the same stored pairs.
C19_OrderIndependence ==
    \A c1 \in ChannelIds, c2 \in ChannelIds :
        (Settled(c1) /\ Settled(c2) /\ CallsOn(c1) = CallsOn(c2))
        => StoreOf(c1) = StoreOf(c2)

\* C19, amended: the stored keys are those of the calls, whatever their order,
\* one row per key; the payload under a key is that of the one call whose
\* INSERT added the row, and every later call of the key left it unchanged.
C19_KeysOrderIndependent ==
    \A c \in ChannelIds :
        Settled(c) =>
           /\ {p[1] : p \in StoreOf(c)} = {p[1] : p \in CallsOn(c)}
           /\ \A c2 \in ChannelIds :
                 (Settled(c2) /\ CallsOn(c) = CallsOn(c2))
                 => {p[1] : p \in StoreOf(c)} = {p[1] : p \in StoreOf(c2)}
           /\ \A r \in StoredRows :
                 r.channel_id = c =>
                    LET same == {d \in DoneOn(c) : hist[d[1]][d[2]].message_id = r.message_id}
                        won == {d \in same : hist[d[1]][d[2]].result = r.id}
                    IN  /\ Cardinality(won) = 1
                        /\ \A d \in won : hist[d[1]][d[2]].payload = r.payload
                        /\ \A d \in same \ won : hist[d[1]][d[2]].result = None
                        /\ \A d \in same : hist[d[1]][d[2]].ret = "True"

\* Two channels have received the same two calls of one message in opposite
\* orders; each holds one row, with the payload of its own first call.
C19_Witness ==
    \E c1 \in ChannelIds, c2 \in ChannelIds :
        /\ c1 # c2 /\ Settled(c1) /\ Settled(c2)
        /\ CallsOn(c1) = CallsOn(c2) /\ Cardinality(CallsOn(c1)) = 2
        /\ Cardinality(StoreOf(c1)) = 1 /\ Cardinality(StoreOf(c2)) = 1
        /\ StoreOf(c1) # StoreOf(c2)

\* The references whose collector of this cycle created a statistics entry:
\* its get_messages call returned
Fetched == {Channel(i) : i \in {j \in Launched : task[j].why \in {"return", "save_message"}
                                                 \/ task[j].pc = "save"}}

\* C20: from the reset at the start of a cycle on, the statistics hold exactly
\* the references whose collector fetched in this cycle, and the summary
\* logged at its end counts them alone: a reference collected in an earlier
\* cycle and not fetched in this one contributes nothing.
C20_StatsAreCycleScoped ==
    /\ cycle.pc \in {"validate", "gather", "exit", "done"} =>
          DOMAIN collection_stats = Fetched
    /\ Ended =>
          /\ cycle.summary.channels = Cardinality(Fetched)
          /\ Fetched = {} =>
                cycle.summary = [channels |-> 0, processed |-> 0, saved |-> 0, errors |-> 0]
          /\ cycle.summary.processed <= SumOut(Launched, "processed")
          /\ cycle.summary.saved <= SumOut(Launched, "saved")
          /\ cycle.summary.errors <= SumOut(Launched, "errors")

\* The second cycle has ended with an empty summary, its only fetch refused,
\* after a first cycle that stored MaxPosts items.
C20_Witness ==
    /\ cycle.no = 2 /\ Ended
    /\ Cardinality(StoredRows) = MaxPosts
    /\ \E i \in Launched : FetchFailed(i) /\ task[i].why = "get_messages"
    /\ cycle.summary = [channels |-> 0, processed |-> 0, saved |-> 0, errors |-> 0]

\* No init_db or save_message call is in progress
GatewayIdle == \A c \in Callers : Frame(c).pc \in {"idle", "returned"}

\* C21: whenever no operation of the gateway is in progress, init_db and every
\* save_message call that ran have returned their connections: none is
\* checked out.
C21_ConnectionsReleased ==
    GatewayIdle => checked_out = 0
====
